---- MODULE Spec2Model ----
(***************************************************************************)
(* Workflow-graph construction of C-PAC:                                   *)
(*   CPAC/seg_preproc/seg_preproc.py  create_seg_preproc()                 *)
(*   CPAC/sca/sca.py                  create_sca(extraction_space)         *)
(* and, in the second half of the module (GuiSpec), the form that writes   *)
(* the FSL model configuration:                                            *)
(*   CPAC/GUI/interface/utils/modelconfig_window.py  class ModelConfig     *)
(* Each builder is a straight-line program of node declarations, input     *)
(* assignments, clones and connect calls.  The model interprets these      *)
(* programs statement by statement, so that every prefix of the connect    *)
(* sequence is a reachable state.                                          *)
(***************************************************************************)
EXTENDS Integers, Sequences, FiniteSets, TLC

(* Number of builder calls made in one run of the interpreter. *)
MaxCalls == 3

(* Largest seed list handed to a returned sca graph. *)
MaxSeeds == 3

(* Largest list of smoothing widths handed to a returned sca graph. *)
MaxFwhm == 3

(* Threshold values of the docstring example (0.2, 0.4, 0.66), in hundredths. *)
ThresholdValues == {20, 40, 66}

TissueNames == {"csf", "gm", "wm"}

(* Values of the extraction_space argument; "other" is neither option. *)
Flags == {"native", "mni", "other"}

Builders == {"seg", "sca"}

VARIABLES
    pc,        \* "idle": no builder is running; "running": inside a builder
    builder,   \* the builder being run ("" when idle)
    flag,      \* its extraction_space argument ("" for create_seg_preproc)
    ip,        \* index of the next statement of the running builder
    locals,    \* node objects created so far by the running builder, by name
    wf,        \* the Workflow under construction
    returned,  \* the graphs returned so far, oldest first
    seed_list, \* length of the seed list the caller set on the graph it holds
    fwhm,      \* length of the fwhm list the caller set on it (0: not set)
    thresholds \* threshold the caller set per tissue, in hundredths (0: not set)

vars == <<pc, builder, flag, ip, locals, wf, returned, seed_list, fwhm, thresholds>>

(* State of the "Create New FSL Model" window (ModelConfig). *)
VARIABLES
    form,        \* text held by each control of the form, by control name
    gpc,         \* position of the running save handler ("idle": none runs)
    gflag,       \* flag argument of the running save call
    vret,        \* what validate returned to save (0: not called yet)
    shown,       \* error message boxes shown by display() during this call
    highlighted, \* controls display() painted pink during this call
    dlg,         \* answer of the file dialog ("" while not shown)
    file,        \* the configuration file: state and lines written
    idx,         \* index in config_list of the next item to write
    ran,         \* what run_model returned (0: not called)
    raised,      \* exception that left the handler ("" when none)
    window,      \* "open", "closed" (by save) or "cancelled" (by cancel)
    clicks,      \* button clicks handled so far
    log          \* events of the running (or last) save call, oldest first

guivars == <<form, gpc, gflag, vret, shown, highlighted, dlg, file, idx, ran,
             raised, window, clicks, log>>

NoFile == [state |-> "none", lines |-> <<>>]

(* No window exists: the state of the form while the graph builders run. *)
NoWindow ==
    /\ form = <<>>
    /\ gpc = "idle"
    /\ gflag = ""
    /\ vret = 0
    /\ shown = 0
    /\ highlighted = {}
    /\ dlg = ""
    /\ file = NoFile
    /\ idx = 0
    /\ ran = 0
    /\ raised = ""
    /\ window = "none"
    /\ clicks = 0
    /\ log = <<>>

-----------------------------------------------------------------------------
(* Statements of the builder programs *)

NoEdge == [src |-> "", sport |-> "", xf |-> "", dst |-> "", dport |-> ""]

Edge(src, sport, xf, dst, dport) ==
    [src |-> src, sport |-> sport, xf |-> xf, dst |-> dst, dport |-> dport]

Stmt(op, name, kind, iface, fields, iterfield, key, val, from, edge) ==
    [op |-> op, name |-> name, kind |-> kind, iface |-> iface,
     fields |-> fields, iterfield |-> iterfield, key |-> key, val |-> val,
     from |-> from, edge |-> edge]

(* pe.Node(util.IdentityInterface(fields=[...]), name=...) *)
StIdentity(name, fields) ==
    Stmt("node", name, "Node", "IdentityInterface", fields, <<>>, "", "", "", NoEdge)

(* pe.Node(interface=..., name=...) *)
StNode(name, iface) ==
    Stmt("node", name, "Node", iface, {}, <<>>, "", "", "", NoEdge)

(* pe.MapNode(interface=..., name=..., iterfield=[...]) *)
StMapNode(name, iface, iterfield) ==
    Stmt("node", name, "MapNode", iface, {}, iterfield, "", "", "", NoEdge)

(* <node>.inputs.<key> = <val> *)
StSet(name, key, val) ==
    Stmt("set", name, "", "", {}, <<>>, key, val, "", NoEdge)

(* <name> = <from>.clone('<name>') *)
StClone(from, name) ==
    Stmt("clone", name, "", "", {}, <<>>, "", "", from, NoEdge)

(* wf.connect(src, sport, dst, dport) *)
StConnect(src, sport, dst, dport) ==
    Stmt("connect", "", "", "", {}, <<>>, "", "", "", Edge(src, sport, "", dst, dport))

(* wf.connect(src, (sport, xf), dst, dport) *)
StConnectX(src, sport, xf, dst, dport) ==
    Stmt("connect", "", "", "", {}, <<>>, "", "", "", Edge(src, sport, xf, dst, dport))

-----------------------------------------------------------------------------
(* create_seg_preproc: node declarations *)

SegInputFields ==
    {"preprocessed_mask", "brain", "standard_res_brain", "example_func",
     "highres2example_func_mat", "stand2highres_warp",
     "PRIOR_CSF", "PRIOR_GRAY", "PRIOR_WHITE"}

SegOutputFields ==
    {"csf_t12func", "csf_mni2func", "csf_combo", "csf_bin", "csf_mask",
     "gm_t12func", "gm_mni2func", "gm_combo", "gm_bin", "gm_mask",
     "global_mask",
     "wm_t12func", "wm_mni2func", "wm_combo", "wm_bin",
     "probability_maps", "mixeltype", "partial_volume_map",
     "partial_volume_files", "wm_mask"}

SegSpecDecls == <<
    StIdentity("inputspec", SegInputFields),
    StIdentity("csf_threshold", {"csf_threshold"}),
    StIdentity("wm_threshold", {"wm_threshold"}),
    StIdentity("gm_threshold", {"gm_threshold"}),
    StIdentity("outputspec", SegOutputFields) >>

SegSegmentDecls == <<
    StNode("segment", "FAST"),
    StSet("segment", "img_type", "1"),
    StSet("segment", "segments", "True"),
    StSet("segment", "probability_maps", "True"),
    StSet("segment", "out_basename", "segment") >>

SegNodeDecls == <<
    StMapNode("csf_t1_to_native", "FLIRT", <<"reference", "in_matrix_file">>),
    StSet("csf_t1_to_native", "apply_xfm", "True"),
    StMapNode("csf_mni_to_native", "ApplyWarp", <<"ref_file", "postmat">>),
    StSet("csf_mni_to_native", "interp", "nn"),
    StClone("csf_mni_to_native", "wm_mni_to_native"),
    StMapNode("overlap_csf_with_prior", "MultiImageMaths", <<"in_file", "operand_files">>),
    StSet("overlap_csf_with_prior", "op_string", "-mas %s "),
    StMapNode("binarize_threshold_csf", "ImageMaths", <<"in_file">>),
    StMapNode("csf_mask", "MultiImageMaths", <<"in_file", "operand_files">>),
    StSet("csf_mask", "op_string", "-mas %s "),
    StMapNode("overlap_wm_with_prior", "MultiImageMaths", <<"in_file", "operand_files">>),
    StSet("overlap_wm_with_prior", "op_string", "-mas %s "),
    StMapNode("binarize_threshold_wm", "ImageMaths", <<"in_file">>),
    StMapNode("wm_t1_to_native", "FLIRT", <<"reference", "in_matrix_file">>),
    StSet("wm_t1_to_native", "apply_xfm", "True"),
    StClone("csf_mask", "wm_mask"),
    StClone("wm_t1_to_native", "gm_t1_to_native"),
    StClone("binarize_threshold_csf", "binarize_threshold_gm"),
    StClone("wm_mni_to_native", "gm_mni_to_native"),
    StClone("overlap_wm_with_prior", "overlap_gm_with_prior"),
    StClone("csf_mask", "gm_mask") >>

-----------------------------------------------------------------------------
(* create_seg_preproc: connect calls *)

(* Variant: the template brain is segmented instead of the anatomical image. *)
SegSegmentConnects_Template == <<
    StConnect("inputspec", "standard_res_brain", "segment", "in_files") >>

SegSegmentConnects == <<
    StConnect("inputspec", "brain", "segment", "in_files") >>

(* Variant: csf_mask masks the overlap image, not the binarized one. *)
SegCsfConnects_SkipThreshold == <<
    StConnectX("segment", "probability_maps", "pick_wm_0", "csf_t1_to_native", "in_file"),
    StConnect("inputspec", "example_func", "csf_t1_to_native", "reference"),
    StConnect("inputspec", "highres2example_func_mat", "csf_t1_to_native", "in_matrix_file"),
    StConnect("inputspec", "example_func", "csf_mni_to_native", "ref_file"),
    StConnect("inputspec", "stand2highres_warp", "csf_mni_to_native", "field_file"),
    StConnect("inputspec", "PRIOR_CSF", "csf_mni_to_native", "in_file"),
    StConnect("inputspec", "highres2example_func_mat", "csf_mni_to_native", "postmat"),
    StConnect("csf_t1_to_native", "out_file", "overlap_csf_with_prior", "in_file"),
    StConnect("csf_mni_to_native", "out_file", "overlap_csf_with_prior", "operand_files"),
    StConnect("overlap_csf_with_prior", "out_file", "binarize_threshold_csf", "in_file"),
    StConnectX("csf_threshold", "csf_threshold", "form_threshold_string",
               "binarize_threshold_csf", "op_string"),
    StConnect("overlap_csf_with_prior", "out_file", "csf_mask", "in_file"),
    StConnect("inputspec", "preprocessed_mask", "csf_mask", "operand_files") >>

SegCsfConnects == <<
    StConnectX("segment", "probability_maps", "pick_wm_0", "csf_t1_to_native", "in_file"),
    StConnect("inputspec", "example_func", "csf_t1_to_native", "reference"),
    StConnect("inputspec", "highres2example_func_mat", "csf_t1_to_native", "in_matrix_file"),
    StConnect("inputspec", "example_func", "csf_mni_to_native", "ref_file"),
    StConnect("inputspec", "stand2highres_warp", "csf_mni_to_native", "field_file"),
    StConnect("inputspec", "PRIOR_CSF", "csf_mni_to_native", "in_file"),
    StConnect("inputspec", "highres2example_func_mat", "csf_mni_to_native", "postmat"),
    StConnect("csf_t1_to_native", "out_file", "overlap_csf_with_prior", "in_file"),
    StConnect("csf_mni_to_native", "out_file", "overlap_csf_with_prior", "operand_files"),
    StConnect("overlap_csf_with_prior", "out_file", "binarize_threshold_csf", "in_file"),
    StConnectX("csf_threshold", "csf_threshold", "form_threshold_string",
               "binarize_threshold_csf", "op_string"),
    StConnect("binarize_threshold_csf", "out_file", "csf_mask", "in_file"),
    StConnect("inputspec", "preprocessed_mask", "csf_mask", "operand_files") >>

SegWmConnects == <<
    StConnectX("segment", "probability_maps", "pick_wm_2", "wm_t1_to_native", "in_file"),
    StConnect("inputspec", "example_func", "wm_t1_to_native", "reference"),
    StConnect("inputspec", "highres2example_func_mat", "wm_t1_to_native", "in_matrix_file"),
    StConnect("inputspec", "example_func", "wm_mni_to_native", "ref_file"),
    StConnect("inputspec", "stand2highres_warp", "wm_mni_to_native", "field_file"),
    StConnect("inputspec", "PRIOR_WHITE", "wm_mni_to_native", "in_file"),
    StConnect("inputspec", "highres2example_func_mat", "wm_mni_to_native", "postmat"),
    StConnect("wm_t1_to_native", "out_file", "overlap_wm_with_prior", "in_file"),
    StConnect("wm_mni_to_native", "out_file", "overlap_wm_with_prior", "operand_files"),
    StConnect("overlap_wm_with_prior", "out_file", "binarize_threshold_wm", "in_file"),
    StConnectX("wm_threshold", "wm_threshold", "form_threshold_string",
               "binarize_threshold_wm", "op_string"),
    StConnect("binarize_threshold_wm", "out_file", "wm_mask", "in_file"),
    StConnect("inputspec", "preprocessed_mask", "wm_mask", "operand_files") >>

(* Variant: the gm branch keeps the channel of the wm branch it was copied from. *)
SegGmConnects_WmChannel == <<
    StConnectX("segment", "probability_maps", "pick_wm_2", "gm_t1_to_native", "in_file"),
    StConnect("inputspec", "example_func", "gm_t1_to_native", "reference"),
    StConnect("inputspec", "highres2example_func_mat", "gm_t1_to_native", "in_matrix_file"),
    StConnect("inputspec", "example_func", "gm_mni_to_native", "ref_file"),
    StConnect("inputspec", "stand2highres_warp", "gm_mni_to_native", "field_file"),
    StConnect("inputspec", "PRIOR_GRAY", "gm_mni_to_native", "in_file"),
    StConnect("inputspec", "highres2example_func_mat", "gm_mni_to_native", "postmat"),
    StConnect("gm_t1_to_native", "out_file", "overlap_gm_with_prior", "in_file"),
    StConnect("gm_mni_to_native", "out_file", "overlap_gm_with_prior", "operand_files"),
    StConnect("overlap_gm_with_prior", "out_file", "binarize_threshold_gm", "in_file"),
    StConnectX("gm_threshold", "gm_threshold", "form_threshold_string",
               "binarize_threshold_gm", "op_string"),
    StConnect("binarize_threshold_gm", "out_file", "gm_mask", "in_file"),
    StConnect("inputspec", "preprocessed_mask", "gm_mask", "operand_files") >>

SegGmConnects == <<
    StConnectX("segment", "probability_maps", "pick_wm_1", "gm_t1_to_native", "in_file"),
    StConnect("inputspec", "example_func", "gm_t1_to_native", "reference"),
    StConnect("inputspec", "highres2example_func_mat", "gm_t1_to_native", "in_matrix_file"),
    StConnect("inputspec", "example_func", "gm_mni_to_native", "ref_file"),
    StConnect("inputspec", "stand2highres_warp", "gm_mni_to_native", "field_file"),
    StConnect("inputspec", "PRIOR_GRAY", "gm_mni_to_native", "in_file"),
    StConnect("inputspec", "highres2example_func_mat", "gm_mni_to_native", "postmat"),
    StConnect("gm_t1_to_native", "out_file", "overlap_gm_with_prior", "in_file"),
    StConnect("gm_mni_to_native", "out_file", "overlap_gm_with_prior", "operand_files"),
    StConnect("overlap_gm_with_prior", "out_file", "binarize_threshold_gm", "in_file"),
    StConnectX("gm_threshold", "gm_threshold", "form_threshold_string",
               "binarize_threshold_gm", "op_string"),
    StConnect("binarize_threshold_gm", "out_file", "gm_mask", "in_file"),
    StConnect("inputspec", "preprocessed_mask", "gm_mask", "operand_files") >>

(* Variant: outputspec.gm_mask is fed by the wm mask. *)
SegOutputConnects_WmAsGm == <<
    StConnect("segment", "probability_maps", "outputspec", "probability_maps"),
    StConnect("segment", "mixeltype", "outputspec", "mixeltype"),
    StConnect("segment", "partial_volume_files", "outputspec", "partial_volume_files"),
    StConnect("segment", "partial_volume_map", "outputspec", "partial_volume_map"),
    StConnect("csf_t1_to_native", "out_file", "outputspec", "csf_t12func"),
    StConnect("csf_mni_to_native", "out_file", "outputspec", "csf_mni2func"),
    StConnect("overlap_csf_with_prior", "out_file", "outputspec", "csf_combo"),
    StConnect("binarize_threshold_csf", "out_file", "outputspec", "csf_bin"),
    StConnect("csf_mask", "out_file", "outputspec", "csf_mask"),
    StConnect("inputspec", "preprocessed_mask", "outputspec", "global_mask"),
    StConnect("wm_t1_to_native", "out_file", "outputspec", "wm_t12func"),
    StConnect("wm_mni_to_native", "out_file", "outputspec", "wm_mni2func"),
    StConnect("overlap_wm_with_prior", "out_file", "outputspec", "wm_combo"),
    StConnect("binarize_threshold_wm", "out_file", "outputspec", "wm_bin"),
    StConnect("wm_mask", "out_file", "outputspec", "wm_mask"),
    StConnect("gm_t1_to_native", "out_file", "outputspec", "gm_t12func"),
    StConnect("gm_mni_to_native", "out_file", "outputspec", "gm_mni2func"),
    StConnect("overlap_gm_with_prior", "out_file", "outputspec", "gm_combo"),
    StConnect("binarize_threshold_gm", "out_file", "outputspec", "gm_bin"),
    StConnect("wm_mask", "out_file", "outputspec", "gm_mask") >>

SegOutputConnects == <<
    StConnect("segment", "probability_maps", "outputspec", "probability_maps"),
    StConnect("segment", "mixeltype", "outputspec", "mixeltype"),
    StConnect("segment", "partial_volume_files", "outputspec", "partial_volume_files"),
    StConnect("segment", "partial_volume_map", "outputspec", "partial_volume_map"),
    StConnect("csf_t1_to_native", "out_file", "outputspec", "csf_t12func"),
    StConnect("csf_mni_to_native", "out_file", "outputspec", "csf_mni2func"),
    StConnect("overlap_csf_with_prior", "out_file", "outputspec", "csf_combo"),
    StConnect("binarize_threshold_csf", "out_file", "outputspec", "csf_bin"),
    StConnect("csf_mask", "out_file", "outputspec", "csf_mask"),
    StConnect("inputspec", "preprocessed_mask", "outputspec", "global_mask"),
    StConnect("wm_t1_to_native", "out_file", "outputspec", "wm_t12func"),
    StConnect("wm_mni_to_native", "out_file", "outputspec", "wm_mni2func"),
    StConnect("overlap_wm_with_prior", "out_file", "outputspec", "wm_combo"),
    StConnect("binarize_threshold_wm", "out_file", "outputspec", "wm_bin"),
    StConnect("wm_mask", "out_file", "outputspec", "wm_mask"),
    StConnect("gm_t1_to_native", "out_file", "outputspec", "gm_t12func"),
    StConnect("gm_mni_to_native", "out_file", "outputspec", "gm_mni2func"),
    StConnect("overlap_gm_with_prior", "out_file", "outputspec", "gm_combo"),
    StConnect("binarize_threshold_gm", "out_file", "outputspec", "gm_bin"),
    StConnect("gm_mask", "out_file", "outputspec", "gm_mask") >>

(* Body of create_seg_preproc after the Workflow is created. *)
create_seg_preproc ==
    SegSpecDecls \o SegSegmentDecls \o SegNodeDecls \o SegSegmentConnects
    \o SegCsfConnects \o SegWmConnects \o SegGmConnects \o SegOutputConnects

-----------------------------------------------------------------------------
(* create_sca: node declarations *)

ScaInputFields ==
    {"ref", "premat", "postmat", "rest_res_filt", "fieldcoeff_file",
     "rest_mask2standard", "standard"}

ScaOutputFields ==
    {"correlations", "Z_trans_correlations", "Z_FWHM", "Z_2standard",
     "Z_2standard_FWHM"}

ScaSpecDecls == <<
    StIdentity("inputspec", ScaInputFields),
    StIdentity("fwhm_input", {"fwhm"}),
    StIdentity("seed_list_input", {"seed_list"}),
    StIdentity("outputspec", ScaOutputFields) >>

(* Variant: warp_to_native keeps the default interpolation. *)
ScaWarpDecls_DefaultInterp == <<
    StMapNode("print_timeseries_to_file", "Function", <<"time_series">>),
    StMapNode("warp_to_native", "ApplyWarp", <<"ref_file", "postmat">>),
    StMapNode("warp_to_standard", "ApplyWarp", <<"in_file", "premat">>),
    StClone("warp_to_standard", "warp_to_standard_input_functional") >>

ScaWarpDecls == <<
    StMapNode("print_timeseries_to_file", "Function", <<"time_series">>),
    StMapNode("warp_to_native", "ApplyWarp", <<"ref_file", "postmat">>),
    StSet("warp_to_native", "interp", "nn"),
    StMapNode("warp_to_standard", "ApplyWarp", <<"in_file", "premat">>),
    StClone("warp_to_standard", "warp_to_standard_input_functional") >>

ScaNodeDecls == <<
    StMapNode("time_series", "ROIStats", <<"in_file">>),
    StSet("time_series", "quiet", "True"),
    StSet("time_series", "mask_f2short", "True"),
    StMapNode("corr", "Fim", <<"in_file", "ideal_file">>),
    StSet("corr", "fim_thr", "0.0009"),
    StSet("corr", "out", "Correlation"),
    StMapNode("z_trans", "Threedcalc", <<"infile_a">>),
    StSet("z_trans", "expr", "'log((1+a)/(1-a))/2'"),
    StMapNode("register", "ApplyWarp", <<"premat", "in_file">>),
    StMapNode("smooth", "MultiImageMaths", <<"in_file", "operand_files">>),
    StClone("smooth", "smooth_mni") >>

-----------------------------------------------------------------------------
(* create_sca: connect calls *)

(* if extraction_space == 'native': *)
(* Variant: the seed registration takes the forward affine. *)
ScaNativeConnects_ForwardAffine == <<
    StConnect("inputspec", "ref", "warp_to_native", "ref_file"),
    StConnect("inputspec", "fieldcoeff_file", "warp_to_native", "field_file"),
    StConnect("inputspec", "premat", "warp_to_native", "postmat"),
    StConnect("seed_list_input", "seed_list", "warp_to_native", "in_file"),
    StConnect("inputspec", "rest_res_filt", "time_series", "in_file"),
    StConnect("warp_to_native", "out_file", "time_series", "mask"),
    StConnect("time_series", "stats", "print_timeseries_to_file", "time_series"),
    StConnect("print_timeseries_to_file", "ts_oneD", "corr", "ideal_file"),
    StConnect("inputspec", "rest_res_filt", "corr", "in_file") >>

ScaNativeConnects == <<
    StConnect("inputspec", "ref", "warp_to_native", "ref_file"),
    StConnect("inputspec", "fieldcoeff_file", "warp_to_native", "field_file"),
    StConnect("inputspec", "postmat", "warp_to_native", "postmat"),
    StConnect("seed_list_input", "seed_list", "warp_to_native", "in_file"),
    StConnect("inputspec", "rest_res_filt", "time_series", "in_file"),
    StConnect("warp_to_native", "out_file", "time_series", "mask"),
    StConnect("time_series", "stats", "print_timeseries_to_file", "time_series"),
    StConnect("print_timeseries_to_file", "ts_oneD", "corr", "ideal_file"),
    StConnect("inputspec", "rest_res_filt", "corr", "in_file") >>

(* else: *)
(* Variant: corr correlates the registered time series. *)
ScaElseConnects_WarpedCorr == <<
    StConnect("inputspec", "rest_res_filt", "warp_to_standard_input_functional", "in_file"),
    StConnect("inputspec", "standard", "warp_to_standard_input_functional", "ref_file"),
    StConnect("inputspec", "fieldcoeff_file", "warp_to_standard_input_functional", "field_file"),
    StConnect("inputspec", "premat", "warp_to_standard_input_functional", "premat"),
    StConnect("warp_to_standard_input_functional", "out_file", "time_series", "in_file"),
    StConnect("time_series", "stats", "print_timeseries_to_file", "time_series"),
    StConnect("seed_list_input", "seed_list", "time_series", "mask"),
    StConnect("print_timeseries_to_file", "ts_oneD", "corr", "ideal_file"),
    StConnect("warp_to_standard_input_functional", "out_file", "corr", "in_file") >>

ScaElseConnects == <<
    StConnect("inputspec", "rest_res_filt", "warp_to_standard_input_functional", "in_file"),
    StConnect("inputspec", "standard", "warp_to_standard_input_functional", "ref_file"),
    StConnect("inputspec", "fieldcoeff_file", "warp_to_standard_input_functional", "field_file"),
    StConnect("inputspec", "premat", "warp_to_standard_input_functional", "premat"),
    StConnect("warp_to_standard_input_functional", "out_file", "time_series", "in_file"),
    StConnect("time_series", "stats", "print_timeseries_to_file", "time_series"),
    StConnect("seed_list_input", "seed_list", "time_series", "mask"),
    StConnect("print_timeseries_to_file", "ts_oneD", "corr", "ideal_file"),
    StConnect("inputspec", "rest_res_filt", "corr", "in_file") >>

(* Variant: the registration node takes the smoothed map it feeds. *)
ScaTailConnects_Cycle == <<
    StConnect("corr", "out_file", "z_trans", "infile_a"),
    StConnect("smooth_mni", "out_file", "warp_to_standard", "in_file"),
    StConnect("inputspec", "standard", "warp_to_standard", "ref_file"),
    StConnect("inputspec", "fieldcoeff_file", "warp_to_standard", "field_file"),
    StConnect("inputspec", "premat", "warp_to_standard", "premat"),
    StConnect("warp_to_standard", "out_file", "smooth_mni", "in_file"),
    StConnectX("fwhm_input", "fwhm", "set_gauss", "smooth_mni", "op_string"),
    StConnect("inputspec", "rest_mask2standard", "smooth_mni", "operand_files") >>

(* Variant: the affine reaches warp_to_standard on a port that is not iterated. *)
ScaTailConnects_PremAtUnfed == <<
    StConnect("corr", "out_file", "z_trans", "infile_a"),
    StConnect("z_trans", "out_file", "warp_to_standard", "in_file"),
    StConnect("inputspec", "standard", "warp_to_standard", "ref_file"),
    StConnect("inputspec", "fieldcoeff_file", "warp_to_standard", "field_file"),
    StConnect("inputspec", "premat", "warp_to_standard", "postmat"),
    StConnect("warp_to_standard", "out_file", "smooth_mni", "in_file"),
    StConnectX("fwhm_input", "fwhm", "set_gauss", "smooth_mni", "op_string"),
    StConnect("inputspec", "rest_mask2standard", "smooth_mni", "operand_files") >>

ScaTailConnects == <<
    StConnect("corr", "out_file", "z_trans", "infile_a"),
    StConnect("z_trans", "out_file", "warp_to_standard", "in_file"),
    StConnect("inputspec", "standard", "warp_to_standard", "ref_file"),
    StConnect("inputspec", "fieldcoeff_file", "warp_to_standard", "field_file"),
    StConnect("inputspec", "premat", "warp_to_standard", "premat"),
    StConnect("warp_to_standard", "out_file", "smooth_mni", "in_file"),
    StConnectX("fwhm_input", "fwhm", "set_gauss", "smooth_mni", "op_string"),
    StConnect("inputspec", "rest_mask2standard", "smooth_mni", "operand_files") >>

(* Variant: the Z-transformed map is wired to the port of the raw map. *)
ScaOutputConnects_DupPort == <<
    StConnect("smooth_mni", "out_file", "outputspec", "Z_FWHM"),
    StConnect("corr", "out_file", "outputspec", "correlations"),
    StConnect("z_trans", "out_file", "outputspec", "correlations") >>

(* Variant: Z_FWHM is fed by the registration node, smooth_mni feeds nothing. *)
ScaOutputConnects_Unsmoothed == <<
    StConnect("warp_to_standard", "out_file", "outputspec", "Z_FWHM"),
    StConnect("corr", "out_file", "outputspec", "correlations"),
    StConnect("z_trans", "out_file", "outputspec", "Z_trans_correlations") >>

ScaOutputConnects == <<
    StConnect("smooth_mni", "out_file", "outputspec", "Z_FWHM"),
    StConnect("corr", "out_file", "outputspec", "correlations"),
    StConnect("z_trans", "out_file", "outputspec", "Z_trans_correlations") >>

(* Variant: the outputspec connects are indented into the else branch. *)
create_sca_OutputsInElse(extraction_space) ==
    ScaSpecDecls \o ScaWarpDecls \o ScaNodeDecls
    \o (IF extraction_space = "native"
        THEN ScaNativeConnects \o ScaTailConnects
        ELSE ScaElseConnects \o ScaTailConnects \o ScaOutputConnects)

(* Variant: only 'mni' selects the else branch, other values select none. *)
create_sca_StrictFlag(extraction_space) ==
    ScaSpecDecls \o ScaWarpDecls \o ScaNodeDecls
    \o (IF extraction_space = "native" THEN ScaNativeConnects
        ELSE IF extraction_space = "mni" THEN ScaElseConnects ELSE <<>>)
    \o ScaTailConnects \o ScaOutputConnects

(* Body of create_sca(extraction_space) after the Workflow is created. *)
create_sca(extraction_space) ==
    ScaSpecDecls \o ScaWarpDecls \o ScaNodeDecls
    \o (IF extraction_space = "native" THEN ScaNativeConnects ELSE ScaElseConnects)
    \o ScaTailConnects \o ScaOutputConnects

Program(b, extraction_space) ==
    IF b = "seg" THEN create_seg_preproc ELSE create_sca(extraction_space)

-----------------------------------------------------------------------------
(* Node objects and the workflow graph *)

(* No workflow object exists outside a builder call. *)
NoWorkflow == [name |-> "", nodes |-> {}, edges |-> {}]

(* Variant: the edge set is a module-level object that every call reuses. *)
Workflow_Shared(name) ==
    [name |-> name, nodes |-> {},
     edges |-> IF returned = <<>> THEN {} ELSE returned[Len(returned)].edges]

(* pe.Workflow(name=...): a graph with no nodes and no edges. *)
Workflow(name) == [name |-> name, nodes |-> {}, edges |-> {}]

WorkflowName(b) == IF b = "seg" THEN "seg_preproc" ELSE "sca_workflow"

(* The object built by pe.Node / pe.MapNode: no input is set yet. *)
NewNode(st) ==
    [name |-> st.name, kind |-> st.kind, iface |-> st.iface,
     fields |-> st.fields, iterfield |-> st.iterfield, inputs |-> {}]

(* node.inputs.key = val replaces any earlier value of key. *)
SetInput(node, key, val) ==
    [node EXCEPT !.inputs = {p \in @ : p[1] # key} \cup {<<key, val>>}]

(* Variant: clone builds a new node of the same interface, inputs unset. *)
CloneNode_Fresh(node, name) == [node EXCEPT !.name = name, !.inputs = {}]

(* node.clone(name): a deep copy that differs in its name only. *)
CloneNode(node, name) == [node EXCEPT !.name = name]

(* wf.connect adds both end nodes and the edge to the graph. *)
AddEdge(g, e) ==
    [g EXCEPT !.nodes = @ \cup {e.src, e.dst}, !.edges = @ \cup {e}]

-----------------------------------------------------------------------------
(* The interpreter *)

NoNodes == [n \in {} |-> 0]

NoThresholds == [t \in TissueNames |-> 0]

Init ==
    /\ pc = "idle"
    /\ builder = ""
    /\ flag = ""
    /\ ip = 0
    /\ locals = NoNodes
    /\ wf = NoWorkflow
    /\ returned = <<>>
    /\ seed_list = 0
    /\ fwhm = 0
    /\ thresholds = NoThresholds
    /\ NoWindow

Cur == Program(builder, flag)[ip]

(* Names bound by the import statements at the head of each file. *)
ImportedNames(b) ==
    IF b = "seg"
    THEN {"os", "sys", "commands", "pe", "ra", "afni", "fsl", "nio", "util"}
    ELSE {"sys", "preprocess", "os", "commands", "pe", "ra", "afni", "fsl",
          "nio", "util"}

(* Names taken to be bound by "from CPAC.seg_preproc import *" and         *)
(* "from CPAC.sca import *": the builders use them and bind them nowhere.  *)
StarImported(b) ==
    IF b = "seg" THEN {"pick_wm_0", "pick_wm_1", "pick_wm_2"}
    ELSE {"e_afni", "pToFile", "set_gauss"}

(* Functions defined inside the builder body. *)
LocalDefs(b) == IF b = "seg" THEN {"form_threshold_string"} ELSE {}

(* The module each interface class is taken from. *)
IfaceModule(iface) ==
    CASE iface \in {"IdentityInterface", "Function"} -> "util"
      [] iface \in {"FAST", "FLIRT", "ApplyWarp", "MultiImageMaths", "ImageMaths"} -> "fsl"
      [] iface \in {"ROIStats", "Fim"} -> "afni"
      [] iface = "Threedcalc" -> "e_afni"

(* Global and local names a statement looks up. *)
NamesUsed(st) ==
    CASE st.op = "node" ->
           {"pe", IfaceModule(st.iface)}
              \cup (IF st.iface = "Function" THEN {"pToFile"} ELSE {})
      [] st.op = "connect" -> IF st.edge.xf = "" THEN {} ELSE {st.edge.xf}
      [] OTHER -> {}

(* Node variables a statement reads. *)
NodesUsed(st) ==
    CASE st.op = "set" -> {st.name}
      [] st.op = "clone" -> {st.from}
      [] st.op = "connect" -> {st.edge.src, st.edge.dst}
      [] OTHER -> {}

(* The statement runs without raising NameError: every name it looks up   *)
(* is bound and every node variable it reads was assigned before.         *)
Executable(st) ==
    /\ NamesUsed(st) \subseteq
          ImportedNames(builder) \cup StarImported(builder) \cup LocalDefs(builder)
    /\ NodesUsed(st) \subseteq DOMAIN locals

Running(op) ==
    /\ pc = "running"
    /\ ip <= Len(Program(builder, flag))
    /\ Cur.op = op
    /\ Executable(Cur)

(* A caller invokes create_seg_preproc(). *)
CallSeg ==
    /\ pc = "idle"
    /\ Len(returned) < MaxCalls
    /\ pc' = "running"
    /\ builder' = "seg"
    /\ flag' = ""
    /\ ip' = 1
    /\ locals' = NoNodes
    /\ wf' = Workflow(WorkflowName("seg"))
    /\ seed_list' = 0
    /\ fwhm' = 0
    /\ thresholds' = NoThresholds
    /\ UNCHANGED returned
    /\ UNCHANGED guivars

(* A caller invokes create_sca(extraction_space). *)
CallSca ==
    /\ pc = "idle"
    /\ Len(returned) < MaxCalls
    /\ \E f \in Flags :
        /\ pc' = "running"
        /\ builder' = "sca"
        /\ flag' = f
        /\ ip' = 1
        /\ locals' = NoNodes
        /\ wf' = Workflow(WorkflowName("sca"))
    /\ seed_list' = 0
    /\ fwhm' = 0
    /\ thresholds' = NoThresholds
    /\ UNCHANGED returned
    /\ UNCHANGED guivars

DeclareNode ==
    /\ Running("node")
    /\ locals' = (Cur.name :> NewNode(Cur)) @@ locals
    /\ ip' = ip + 1
    /\ UNCHANGED <<pc, builder, flag, wf, returned, seed_list, fwhm, thresholds>>
    /\ UNCHANGED guivars

AssignInput ==
    /\ Running("set")
    /\ locals' = [locals EXCEPT ![Cur.name] = SetInput(@, Cur.key, Cur.val)]
    /\ ip' = ip + 1
    /\ UNCHANGED <<pc, builder, flag, wf, returned, seed_list, fwhm, thresholds>>
    /\ UNCHANGED guivars

Clone ==
    /\ Running("clone")
    /\ locals' = (Cur.name :> CloneNode(locals[Cur.from], Cur.name)) @@ locals
    /\ ip' = ip + 1
    /\ UNCHANGED <<pc, builder, flag, wf, returned, seed_list, fwhm, thresholds>>
    /\ UNCHANGED guivars

Connect ==
    /\ Running("connect")
    /\ wf' = AddEdge(wf, Cur.edge)
    /\ ip' = ip + 1
    /\ UNCHANGED <<pc, builder, flag, locals, returned, seed_list, fwhm, thresholds>>
    /\ UNCHANGED guivars

(* The graph handed back: its nodes are the objects that were connected. *)
Result ==
    [builder |-> builder, flag |-> flag, name |-> wf.name,
     nodes |-> {locals[n] : n \in wf.nodes}, edges |-> wf.edges]

Return ==
    /\ pc = "running"
    /\ ip = Len(Program(builder, flag)) + 1
    /\ returned' = Append(returned, Result)
    /\ pc' = "idle"
    /\ builder' = ""
    /\ flag' = ""
    /\ ip' = 0
    /\ locals' = NoNodes
    /\ wf' = NoWorkflow
    /\ seed_list' = 0
    /\ fwhm' = 0
    /\ thresholds' = NoThresholds
    /\ UNCHANGED guivars

(* The caller sets seed_list_input.seed_list on the graph it just got. *)
SetSeedList ==
    /\ pc = "idle"
    /\ returned # <<>>
    /\ returned[Len(returned)].builder = "sca"
    /\ \E n \in 1..MaxSeeds : seed_list' = n
    /\ UNCHANGED <<pc, builder, flag, ip, locals, wf, returned, fwhm, thresholds>>
    /\ UNCHANGED guivars

(* The caller sets fwhm_input.fwhm and makes it the iterables of fwhm_input. *)
SetFwhm ==
    /\ pc = "idle"
    /\ returned # <<>>
    /\ returned[Len(returned)].builder = "sca"
    /\ \E m \in 1..MaxFwhm : fwhm' = m
    /\ UNCHANGED <<pc, builder, flag, ip, locals, wf, returned, seed_list, thresholds>>
    /\ UNCHANGED guivars

(* The caller sets <t>_threshold.<t>_threshold on the seg graph it just got. *)
SetThreshold ==
    /\ pc = "idle"
    /\ returned # <<>>
    /\ returned[Len(returned)].builder = "seg"
    /\ \E t \in TissueNames, v \in ThresholdValues :
          /\ thresholds[t] = 0
          /\ thresholds' = [thresholds EXCEPT ![t] = v]
    /\ UNCHANGED <<pc, builder, flag, ip, locals, wf, returned, seed_list, fwhm>>
    /\ UNCHANGED guivars

Next ==
    \/ CallSeg
    \/ CallSca
    \/ DeclareNode
    \/ AssignInput
    \/ Clone
    \/ Connect
    \/ Return
    \/ SetSeedList
    \/ SetFwhm
    \/ SetThreshold

Spec == Init /\ [][Next]_vars

-----------------------------------------------------------------------------
(* Views of the graphs *)

(* The workflow under construction, as node names and edges. *)
CurGraph == [names |-> wf.nodes, edges |-> wf.edges]

(* The i-th returned graph, as node names and edges. *)
RetGraph(i) ==
    [names |-> {n.name : n \in returned[i].nodes}, edges |-> returned[i].edges]

(* The returned graphs, inspected when control is back at the caller; a   *)
(* graph enters returned only by Return, which hands control back.         *)
Done == IF pc = "idle" THEN DOMAIN returned ELSE {}

AllGraphs == {CurGraph} \cup {RetGraph(i) : i \in Done}

(* The node object called name in the i-th returned graph. *)
NodeOf(i, name) == CHOOSE n \in returned[i].nodes : n.name = name

HasNode(i, name) == \E n \in returned[i].nodes : n.name = name

Succ(E, n) == {e.dst : e \in {x \in E : x.src = n}}

Pred(E, n) == {e.src : e \in {x \in E : x.dst = n}}

RECURSIVE Reach(_, _, _)
(* Nodes reachable from frontier along edges of E, seen included. *)
Reach(E, frontier, seen) ==
    IF frontier = {} THEN seen
    ELSE LET new == (UNION {Succ(E, n) : n \in frontier}) \ (seen \cup frontier)
         IN  Reach(E, new, seen \cup frontier)

(* Nodes reachable from n along one or more edges. *)
Descendants(E, n) == Reach(E, Succ(E, n), {})

(* The edges of E turned round. *)
Flip(E) == {[e EXCEPT !.src = e.dst, !.dst = e.src] : e \in E}

(* Nodes from which n is reachable along one or more edges. *)
Ancestors(E, n) == Descendants(Flip(E), n)

Acyclic(g) == \A n \in g.names : n \notin Descendants(g.edges, n)

SingleWriter(g) ==
    \A e1, e2 \in g.edges :
        (e1.dst = e2.dst /\ e1.dport = e2.dport) => e1 = e2

Sources(g) == {n \in g.names : Pred(g.edges, n) = {}}

Sinks(g) == {n \in g.names : Succ(g.edges, n) = {}}

IsSeg(i) == returned[i].builder = "seg"

IsSca(i, f) == returned[i].builder = "sca" /\ returned[i].flag = f

-----------------------------------------------------------------------------
(* C1: two calls of the same builder with the same mode return equal      *)
(* graphs (node names, node count, fixed parameters, edges), whatever was  *)
(* built before, and a graph already returned is never changed by a later  *)
(* call.                                                                   *)
C1_Idempotent ==
    [][ /\ \A i \in DOMAIN returned : returned'[i] = returned[i]
        /\ \A i, j \in DOMAIN returned' :
              (/\ returned'[i].builder = returned'[j].builder
               /\ returned'[i].flag = returned'[j].flag)
              => (/\ returned'[i].nodes = returned'[j].nodes
                  /\ returned'[i].edges = returned'[j].edges) ]_vars

(* The same builder returned twice, with another builder's call between. *)
C1_Witness ==
    \E i, j, k \in DOMAIN returned :
        /\ i < k /\ k < j
        /\ returned[i].builder = returned[j].builder
        /\ returned[i].flag = returned[j].flag
        /\ <<returned[k].builder, returned[k].flag>>
             # <<returned[i].builder, returned[i].flag>>

(* C2: after every connect step and in every returned graph, each (node,   *)
(* input port) pair is the destination of at most one edge.                *)
C2_SingleWriter == \A g \in AllGraphs : SingleWriter(g)

(* Complete seg, native and mni graphs have all been returned. *)
C2_Witness ==
    /\ \E i \in DOMAIN returned : IsSeg(i) /\ Cardinality(returned[i].edges) = 60
    /\ \E i \in DOMAIN returned : IsSca(i, "native") /\ Cardinality(returned[i].edges) = 20
    /\ \E i \in DOMAIN returned : IsSca(i, "mni") /\ Cardinality(returned[i].edges) = 20

(* C3: after every prefix of the connect calls and in every returned       *)
(* graph, no node is reachable from itself along one or more edges.        *)
C3_Acyclic == \A g \in AllGraphs : Acyclic(g)

(* A returned graph with a path of several edges, and a graph half built. *)
C3_Witness ==
    /\ \E i \in DOMAIN returned :
          /\ IsSca(i, "native")
          /\ "outputspec" \in Descendants(returned[i].edges, "seed_list_input")
    /\ pc = "running" /\ builder = "seg" /\ wf.edges # {}
    /\ "csf_mask" \in Descendants(wf.edges, "segment")

(* Identity input nodes the docstrings name for each builder. *)
InputNodes(b) ==
    IF b = "seg" THEN {"inputspec", "csf_threshold", "wm_threshold", "gm_threshold"}
    ELSE {"inputspec", "fwhm_input", "seed_list_input"}

(* C4: in every returned graph the nodes without incoming edge are exactly *)
(* the identity input nodes, and outputspec is the only node without       *)
(* outgoing edge.                                                          *)
C4_SourcesAndSinks ==
    \A i \in Done :
        /\ Sources(RetGraph(i)) = InputNodes(returned[i].builder)
        /\ \A n \in Sources(RetGraph(i)) : NodeOf(i, n).iface = "IdentityInterface"
        /\ Sinks(RetGraph(i)) = {"outputspec"}

(* Graphs of both builders were returned, each with inner nodes. *)
C4_Witness ==
    /\ \E i \in DOMAIN returned : IsSeg(i) /\ Cardinality(RetGraph(i).names) = 21
    /\ \E i \in DOMAIN returned :
          returned[i].builder = "sca" /\ Cardinality(RetGraph(i).names) = 11

(* C5: the returned seg graph has exactly one FAST node, whose only        *)
(* incoming edge is inputspec.brain -> in_files.                           *)
C5_OneSegmentationNode ==
    \A i \in Done : IsSeg(i) =>
        /\ {n.name : n \in {m \in returned[i].nodes : m.iface = "FAST"}} = {"segment"}
        /\ {e \in returned[i].edges : e.dst = "segment"}
             = {Edge("inputspec", "brain", "", "segment", "in_files")}

C5_Witness ==
    \E i \in DOMAIN returned :
        /\ IsSeg(i)
        /\ HasNode(i, "segment")
        /\ \E e \in returned[i].edges : e.dst = "segment"

-----------------------------------------------------------------------------
(* Names of the nodes and ports of the three tissue branches. *)
Tissues ==
    {[t |-> "csf", t1 |-> "csf_t1_to_native", mni |-> "csf_mni_to_native",
      overlap |-> "overlap_csf_with_prior", bin |-> "binarize_threshold_csf",
      mask |-> "csf_mask", thr |-> "csf_threshold", prior |-> "PRIOR_CSF",
      chan |-> 0],
     [t |-> "gm", t1 |-> "gm_t1_to_native", mni |-> "gm_mni_to_native",
      overlap |-> "overlap_gm_with_prior", bin |-> "binarize_threshold_gm",
      mask |-> "gm_mask", thr |-> "gm_threshold", prior |-> "PRIOR_GRAY",
      chan |-> 1],
     [t |-> "wm", t1 |-> "wm_t1_to_native", mni |-> "wm_mni_to_native",
      overlap |-> "overlap_wm_with_prior", bin |-> "binarize_threshold_wm",
      mask |-> "wm_mask", thr |-> "wm_threshold", prior |-> "PRIOR_WHITE",
      chan |-> 2]}

(* Channel of the probability maps that a pick_wm_<n> transform selects;   *)
(* the docstring pairs each branch with segment_prob_<n>.                  *)
PickChannel(xf) ==
    CASE xf = "pick_wm_0" -> 0
      [] xf = "pick_wm_1" -> 1
      [] xf = "pick_wm_2" -> 2
      [] OTHER -> -1

(* Edges that carry segment.probability_maps into a FLIRT node. *)
ProbMapFeeds(i) ==
    {e \in returned[i].edges :
        /\ e.src = "segment" /\ e.sport = "probability_maps"
        /\ HasNode(i, e.dst) /\ NodeOf(i, e.dst).iface = "FLIRT"}

(* C6: segment.probability_maps feeds exactly three linear-registration    *)
(* nodes, each through a channel-selecting transform: csf channel 0, gm    *)
(* channel 1, wm channel 2; no two branches select the same channel.       *)
C6_DistinctChannels ==
    \A i \in Done : IsSeg(i) =>
        /\ {<<e.dst, e.dport, PickChannel(e.xf)>> : e \in ProbMapFeeds(i)}
             = {<<t.t1, "in_file", t.chan>> : t \in Tissues}
        /\ Cardinality(ProbMapFeeds(i)) = 3
        /\ \A e1, e2 \in ProbMapFeeds(i) :
              PickChannel(e1.xf) = PickChannel(e2.xf) => e1 = e2

C6_Witness ==
    \E i \in DOMAIN returned :
        /\ IsSeg(i)
        /\ \E e \in ProbMapFeeds(i) : e.dst = "gm_t1_to_native" /\ e.xf # ""

RECURSIVE PathLens(_, _, _)
(* Lengths, in edges, of the paths of an acyclic edge set from a to b. *)
PathLens(E, a, b) ==
    IF a = b THEN {0}
    ELSE UNION {{l + 1 : l \in PathLens(E, n, b)} : n \in Succ(E, a)}

(* Ancestors of node whose interface is one of ifaces. *)
AncOfKind(i, node, ifaces) ==
    {n \in Ancestors(returned[i].edges, node) : NodeOf(i, n).iface \in ifaces}

(* Consumers of a node's output other than outputspec. *)
InnerSucc(i, n) == Succ(returned[i].edges, n) \ {"outputspec"}

(* C7: each t_mask is downstream of exactly two registration nodes         *)
(* (t_t1_to_native, t_mni_to_native) that converge at overlap_t_with_prior,*)
(* followed by binarize_threshold_t and then t_mask; every path from the   *)
(* segmentation node to t_mask has exactly 4 edges.                        *)
C7_BranchShape ==
    \A i \in Done : IsSeg(i) =>
        \A t \in Tissues :
            /\ AncOfKind(i, t.mask, {"FLIRT", "ApplyWarp"}) = {t.t1, t.mni}
            /\ NodeOf(i, t.t1).iface = "FLIRT"
            /\ NodeOf(i, t.mni).iface = "ApplyWarp"
            /\ InnerSucc(i, t.t1) = {t.overlap}
            /\ InnerSucc(i, t.mni) = {t.overlap}
            /\ AncOfKind(i, t.mask, {"MultiImageMaths"}) = {t.overlap}
            /\ AncOfKind(i, t.mask, {"ImageMaths"}) = {t.bin}
            /\ InnerSucc(i, t.overlap) = {t.bin}
            /\ InnerSucc(i, t.bin) = {t.mask}
            /\ NodeOf(i, t.mask).iface = "MultiImageMaths"
            /\ PathLens(returned[i].edges, "segment", t.mask) = {4}

C7_Witness ==
    \E i \in DOMAIN returned :
        /\ IsSeg(i)
        /\ \A t \in Tissues : t.mask \in Descendants(returned[i].edges, "segment")

(* Registration nodes between the seed list and node. *)
SeedRegistrations(i, node) ==
    AncOfKind(i, node, {"ApplyWarp", "FLIRT"})
        \cap Descendants(returned[i].edges, "seed_list_input")

(* C8: mode 'native': warp_to_native is in the graph with interp 'nn' and  *)
(* feeds time_series.mask; mode 'mni': warp_to_native is not in the graph, *)
(* no seed registration is upstream of time_series and the seed list feeds *)
(* time_series.mask directly.                                              *)
C8_SeedRegistration ==
    \A i \in Done :
        /\ IsSca(i, "native") =>
              /\ HasNode(i, "warp_to_native")
              /\ <<"interp", "nn">> \in NodeOf(i, "warp_to_native").inputs
              /\ Edge("warp_to_native", "out_file", "", "time_series", "mask")
                    \in returned[i].edges
              /\ SeedRegistrations(i, "time_series") = {"warp_to_native"}
        /\ IsSca(i, "mni") =>
              /\ ~HasNode(i, "warp_to_native")
              /\ SeedRegistrations(i, "time_series") = {}
              /\ Edge("seed_list_input", "seed_list", "", "time_series", "mask")
                    \in returned[i].edges

C8_Witness ==
    /\ \E i \in DOMAIN returned : IsSca(i, "native") /\ HasNode(i, "time_series")
    /\ \E i \in DOMAIN returned : IsSca(i, "mni") /\ HasNode(i, "time_series")

(* C9: in every returned sca graph the standard-space Z-map reaches        *)
(* outputspec and every declared outputspec port has an incoming edge.     *)
C9_AllOutputsWired ==
    \A i \in Done : returned[i].builder = "sca" =>
        /\ \A port \in NodeOf(i, "outputspec").fields :
              \E e \in returned[i].edges : e.dst = "outputspec" /\ e.dport = port
        /\ \E e \in returned[i].edges :
              e.src = "warp_to_standard" /\ e.dst = "outputspec"

-----------------------------------------------------------------------------
(* Execution-time size of the values, by the MapNode rule: a MapNode runs  *)
(* once per element of its first iterated input and yields one output      *)
(* element per run; any other input is handed whole to every run.          *)

RECURSIVE OutLen(_, _, _)
(* Number of elements node puts on an output port, for n seeds. *)
OutLen(i, node, n) ==
    LET obj == NodeOf(i, node)
        feed == {e \in returned[i].edges :
                    e.dst = node /\ obj.iterfield # <<>> /\ e.dport = obj.iterfield[1]}
    IN  IF node = "seed_list_input" THEN n
        ELSE IF obj.kind = "MapNode"
             THEN IF feed = {} THEN 0
                  ELSE OutLen(i, (CHOOSE e \in feed : TRUE).src, n)
             ELSE 1

(* Number of elements arriving at an input port. *)
InLen(i, node, port, n) ==
    LET feed == {e \in returned[i].edges : e.dst = node /\ e.dport = port}
    IN  IF feed = {} THEN 0 ELSE OutLen(i, (CHOOSE e \in feed : TRUE).src, n)

(* Is the input port an iterated field of its node? *)
Iterated(i, node, port) ==
    \E k \in DOMAIN NodeOf(i, node).iterfield : NodeOf(i, node).iterfield[k] = port

(* C10: the seed list reaches an iterated input of a MapNode, and a seed   *)
(* list of length N yields exactly N elements at outputspec.correlations.  *)
C10_OneMapPerSeed ==
    (/\ pc = "idle" /\ returned # <<>> /\ seed_list > 0
     /\ returned[Len(returned)].builder = "sca")
    => LET i == Len(returned)
       IN  /\ \A e \in returned[i].edges :
                 e.src = "seed_list_input" => Iterated(i, e.dst, e.dport)
           /\ InLen(i, "outputspec", "correlations", seed_list) = seed_list

(* Smoothed images produced for n seeds and m widths: fwhm_input carries   *)
(* the widths as iterables, so smooth_mni is run once per width over each  *)
(* element of its iterated input.                                          *)
SmoothedLen(i, n, m) == m * OutLen(i, "smooth_mni", n)

(* C11: a seed list of length N and an fwhm list of length M give N x M    *)
(* smoothed output elements.                                               *)
C11_CartesianFanOut ==
    (/\ pc = "idle" /\ returned # <<>> /\ seed_list > 0 /\ fwhm > 0
     /\ returned[Len(returned)].builder = "sca")
    => SmoothedLen(Len(returned), seed_list, fwhm) = seed_list * fwhm

-----------------------------------------------------------------------------
(* The five outputspec ports of a tissue, with the node that has to feed   *)
(* each of them.                                                           *)
TissueOutputs(t) ==
    CASE t.t = "csf" ->
           {<<t.t1, "csf_t12func">>, <<t.mni, "csf_mni2func">>,
            <<t.overlap, "csf_combo">>, <<t.bin, "csf_bin">>, <<t.mask, "csf_mask">>}
      [] t.t = "gm" ->
           {<<t.t1, "gm_t12func">>, <<t.mni, "gm_mni2func">>,
            <<t.overlap, "gm_combo">>, <<t.bin, "gm_bin">>, <<t.mask, "gm_mask">>}
      [] t.t = "wm" ->
           {<<t.t1, "wm_t12func">>, <<t.mni, "wm_mni2func">>,
            <<t.overlap, "wm_combo">>, <<t.bin, "wm_bin">>, <<t.mask, "wm_mask">>}

SegmentOutputs ==
    {"probability_maps", "mixeltype", "partial_volume_map", "partial_volume_files"}

(* Edges of the i-th returned graph that end at the given input port. *)
Feeds(i, node, port) ==
    {e \in returned[i].edges : e.dst = node /\ e.dport = port}

(* C12: in the seg graph every declared outputspec port has exactly one    *)
(* incoming edge; each tissue's five ports are fed by that tissue's own    *)
(* nodes, and the four segmentation ports by the like-named outputs of     *)
(* segment.                                                                *)
C12_OutputsWired ==
    \A i \in Done : IsSeg(i) =>
        /\ \A port \in NodeOf(i, "outputspec").fields :
              Cardinality(Feeds(i, "outputspec", port)) = 1
        /\ \A t \in Tissues : \A o \in TissueOutputs(t) :
              Feeds(i, "outputspec", o[2])
                 = {Edge(o[1], "out_file", "", "outputspec", o[2])}
        /\ \A port \in SegmentOutputs :
              Feeds(i, "outputspec", port)
                 = {Edge("segment", port, "", "outputspec", port)}

C12_Witness ==
    \E i \in DOMAIN returned :
        /\ IsSeg(i)
        /\ Cardinality({e \in returned[i].edges : e.dst = "outputspec"}) = 20

-----------------------------------------------------------------------------
(* The part of the sca graph from the correlation node onward. *)
TailNodes == {"corr", "z_trans", "warp_to_standard", "smooth_mni"}

TailEdges(i) ==
    {e \in returned[i].edges :
        e.dst \in {"z_trans", "warp_to_standard", "smooth_mni", "outputspec"}}

TailObjects(i) == {n \in returned[i].nodes : n.name \in TailNodes}

(* Edges that end at corr or at a node upstream of corr. *)
UpstreamOfCorr(i) ==
    {e \in returned[i].edges :
        e.dst \in Ancestors(returned[i].edges, "corr") \cup {"corr"}}

-----------------------------------------------------------------------------
-----------------------------------------------------------------------------
(* Declared ports of inputspec that are the source of at least one edge. *)
UsedInputs(i) ==
    {p \in NodeOf(i, "inputspec").fields :
        \E e \in returned[i].edges : e.src = "inputspec" /\ e.sport = p}

(* C15 as stated: every declared inputspec port of the seg graph is the    *)
(* source of at least one edge.                                            *)
C15_AllInputsWired ==
    \A i \in Done : IsSeg(i) => UsedInputs(i) = NodeOf(i, "inputspec").fields

(* C15: every declared inputspec port of the seg graph except              *)
(* standard_res_brain is the source of at least one edge;                  *)
(* standard_res_brain is declared and is the source of none.               *)
C15_InputsWiredButTemplate ==
    \A i \in Done : IsSeg(i) =>
        /\ NodeOf(i, "inputspec").fields = SegInputFields
        /\ UsedInputs(i) = SegInputFields \ {"standard_res_brain"}

C15_Witness ==
    \E i \in DOMAIN returned :
        /\ IsSeg(i)
        /\ "standard_res_brain" \in NodeOf(i, "inputspec").fields
        /\ "brain" \in UsedInputs(i)

-----------------------------------------------------------------------------
(* C16: the three prior-registration nodes (csf_mni_to_native and its      *)
(* clones) have interp 'nn'; each takes its tissue's own prior as in_file, *)
(* stand2highres_warp as field_file and, as postmat, the affine            *)
(* highres2example_func_mat that the tissue's linear registration takes as *)
(* in_matrix_file.                                                         *)
C16_PriorRegistration ==
    \A i \in Done : IsSeg(i) =>
        \A t \in Tissues :
            /\ NodeOf(i, t.mni).iface = "ApplyWarp"
            /\ <<"interp", "nn">> \in NodeOf(i, t.mni).inputs
            /\ Feeds(i, t.mni, "in_file")
                 = {Edge("inputspec", t.prior, "", t.mni, "in_file")}
            /\ Feeds(i, t.mni, "field_file")
                 = {Edge("inputspec", "stand2highres_warp", "", t.mni, "field_file")}
            /\ Feeds(i, t.mni, "postmat")
                 = {Edge("inputspec", "highres2example_func_mat", "", t.mni, "postmat")}
            /\ Feeds(i, t.t1, "in_matrix_file")
                 = {Edge("inputspec", "highres2example_func_mat", "", t.t1,
                         "in_matrix_file")}

(* A seg graph whose cloned prior registrations are connected. *)
C16_Witness ==
    \E i \in DOMAIN returned :
        /\ IsSeg(i)
        /\ HasNode(i, "wm_mni_to_native") /\ HasNode(i, "gm_mni_to_native")
        /\ Feeds(i, "gm_mni_to_native", "in_file") # {}

-----------------------------------------------------------------------------
(* Tissue substitution: the names of a branch with the tissue taken out. *)
BranchNodes(t) == {t.t1, t.mni, t.overlap, t.bin, t.mask, t.thr}

RoleOf(t, name) ==
    CASE name = t.t1 -> "t1_to_native"
      [] name = t.mni -> "mni_to_native"
      [] name = t.overlap -> "overlap_with_prior"
      [] name = t.bin -> "binarize_threshold"
      [] name = t.mask -> "mask"
      [] name = t.thr -> "threshold"
      [] OTHER -> name

PortRole(t, port) ==
    IF port = t.prior THEN "PRIOR"
    ELSE IF port = t.thr THEN "threshold"
    ELSE IF \E o \in TissueOutputs(t) : o[2] = port
         THEN RoleOf(t, (CHOOSE o \in TissueOutputs(t) : o[2] = port)[1])
         ELSE port

XfRole(t, xf) == IF PickChannel(xf) = t.chan THEN "pick_own_channel" ELSE xf

(* Edges that touch the branch of tissue t, tissue taken out. *)
BranchEdges(i, t) ==
    {Edge(RoleOf(t, e.src), PortRole(t, e.sport), XfRole(t, e.xf),
          RoleOf(t, e.dst), PortRole(t, e.dport)) :
        e \in {x \in returned[i].edges :
                  x.src \in BranchNodes(t) \/ x.dst \in BranchNodes(t)}}

(* Node objects of the branch of tissue t, tissue taken out. *)
BranchObjects(i, t) ==
    {[name |-> RoleOf(t, n.name), kind |-> n.kind, iface |-> n.iface,
      fields |-> {PortRole(t, f) : f \in n.fields},
      iterfield |-> n.iterfield, inputs |-> n.inputs] :
        n \in {m \in returned[i].nodes : m.name \in BranchNodes(t)}}

(* C17: the csf, gm and wm branches are equal up to tissue substitution:   *)
(* same tool kinds, fixed parameters, iterated fields and edge pattern,    *)
(* for nodes made directly and for nodes made by cloning.                  *)
C17_BranchesIsomorphic ==
    \A i \in Done : IsSeg(i) =>
        LET csf == CHOOSE t \in Tissues : t.t = "csf"
            edges == BranchEdges(i, csf)
            objects == BranchObjects(i, csf)
        IN  /\ Cardinality(edges) = 18
            /\ Cardinality(objects) = 6
            /\ \A t \in Tissues :
                  /\ BranchEdges(i, t) = edges
                  /\ BranchObjects(i, t) = objects

C17_Witness ==
    \E i \in DOMAIN returned :
        /\ IsSeg(i)
        /\ \A t \in Tissues : BranchNodes(t) \subseteq RetGraph(i).names

-----------------------------------------------------------------------------
(* '%f' of a value given in hundredths: integer part and six decimals. *)
FormatF(h) == <<h \div 100, (h % 100) * 10000>>

(* Variant: the operator string only thresholds. *)
form_threshold_string_NoBin(threshold) == <<"-thr ", FormatF(threshold)>>

(* '-thr %f -bin ' % (threshold) *)
form_threshold_string(threshold) == <<"-thr ", FormatF(threshold), " -bin ">>

(* The transform named on an edge, applied to the value that passes. *)
ApplyTransform(xf, v) ==
    IF xf = "form_threshold_string" THEN form_threshold_string(v) ELSE v

(* Value the caller set on a threshold input node. *)
ThresholdOf(node) == thresholds[(CHOOSE t \in Tissues : t.thr = node).t]

(* Values that arrive at the op_string port of a threshold node. *)
OpStrings(i, node) ==
    {ApplyTransform(e.xf, ThresholdOf(e.src)) : e \in Feeds(i, node, "op_string")}

ThresholdNodes == {t.thr : t \in Tissues}

(* C18: binarize_threshold_t gets its op_string only from t_threshold,     *)
(* through form_threshold_string, as '-thr <value> -bin' with the value of *)
(* that tissue; no other tissue's threshold reaches it.                    *)
C18_OwnThreshold ==
    (/\ pc = "idle" /\ returned # <<>> /\ IsSeg(Len(returned))
     /\ \A t \in TissueNames : thresholds[t] # 0)
    => LET i == Len(returned)
       IN  \A t \in Tissues :
             /\ Feeds(i, t.bin, "op_string")
                  = {Edge(t.thr, t.thr, "form_threshold_string", t.bin, "op_string")}
             /\ Ancestors(returned[i].edges, t.bin) \cap ThresholdNodes = {t.thr}
             /\ \A s \in OpStrings(i, t.bin) :
                   /\ Len(s) = 3
                   /\ s[1] = "-thr " /\ s[3] = " -bin "
                   /\ s[2][1] * 1000000 + s[2][2] = thresholds[t.t] * 10000

(* The three thresholds are set to different values on a seg graph. *)
C18_Witness ==
    /\ pc = "idle" /\ returned # <<>> /\ IsSeg(Len(returned))
    /\ thresholds["csf"] = 40 /\ thresholds["wm"] = 66 /\ thresholds["gm"] = 20
    /\ OpStrings(Len(returned), "binarize_threshold_gm") # {}

-----------------------------------------------------------------------------
C20_MniExtraction ==
    \A i \in Done : IsSca(i, "mni") =>
        LET w == "warp_to_standard_input_functional"
        IN  /\ HasNode(i, w) /\ NodeOf(i, w).iface = "ApplyWarp"
            /\ Feeds(i, w, "in_file") = {Edge("inputspec", "rest_res_filt", "", w, "in_file")}
            /\ Feeds(i, w, "ref_file") = {Edge("inputspec", "standard", "", w, "ref_file")}
            /\ Feeds(i, w, "field_file")
                 = {Edge("inputspec", "fieldcoeff_file", "", w, "field_file")}
            /\ Feeds(i, w, "premat") = {Edge("inputspec", "premat", "", w, "premat")}
            /\ Feeds(i, "time_series", "in_file")
                 = {Edge(w, "out_file", "", "time_series", "in_file")}
            /\ Feeds(i, "time_series", "mask")
                 = {Edge("seed_list_input", "seed_list", "", "time_series", "mask")}
            /\ Feeds(i, "print_timeseries_to_file", "time_series")
                 = {Edge("time_series", "stats", "", "print_timeseries_to_file",
                         "time_series")}
            /\ Feeds(i, "corr", "ideal_file")
                 = {Edge("print_timeseries_to_file", "ts_oneD", "", "corr", "ideal_file")}
            /\ Feeds(i, "corr", "in_file")
                 = {Edge("inputspec", "rest_res_filt", "", "corr", "in_file")}

C20_Witness ==
    \E i \in DOMAIN returned :
        /\ IsSca(i, "mni")
        /\ Feeds(i, "corr", "in_file") # {} /\ Feeds(i, "time_series", "in_file") # {}

-----------------------------------------------------------------------------
(* C21: in the native graph warp_to_native (ApplyWarp, interp 'nn') takes  *)
(* the seed list as in_file, inputspec.fieldcoeff_file as field_file,      *)
(* inputspec.postmat as postmat and inputspec.ref as ref_file; time_series *)
(* takes inputspec.rest_res_filt as in_file and the warped seed as mask;   *)
(* corr takes inputspec.rest_res_filt as in_file and the extracted time    *)
(* series, through print_timeseries_to_file, as ideal_file; the node       *)
(* warp_to_standard_input_functional is not in the graph.                  *)
C21_NativeExtraction ==
    \A i \in Done : IsSca(i, "native") =>
        LET w == "warp_to_native"
        IN  /\ HasNode(i, w) /\ NodeOf(i, w).iface = "ApplyWarp"
            /\ {kv \in NodeOf(i, w).inputs : kv[1] = "interp"} = {<<"interp", "nn">>}
            /\ Feeds(i, w, "in_file")
                 = {Edge("seed_list_input", "seed_list", "", w, "in_file")}
            /\ Feeds(i, w, "field_file")
                 = {Edge("inputspec", "fieldcoeff_file", "", w, "field_file")}
            /\ Feeds(i, w, "postmat") = {Edge("inputspec", "postmat", "", w, "postmat")}
            /\ Feeds(i, w, "ref_file") = {Edge("inputspec", "ref", "", w, "ref_file")}
            /\ Feeds(i, w, "premat") = {}
            /\ Feeds(i, "time_series", "in_file")
                 = {Edge("inputspec", "rest_res_filt", "", "time_series", "in_file")}
            /\ Feeds(i, "time_series", "mask")
                 = {Edge(w, "out_file", "", "time_series", "mask")}
            /\ Feeds(i, "print_timeseries_to_file", "time_series")
                 = {Edge("time_series", "stats", "", "print_timeseries_to_file",
                         "time_series")}
            /\ Feeds(i, "corr", "ideal_file")
                 = {Edge("print_timeseries_to_file", "ts_oneD", "", "corr", "ideal_file")}
            /\ Feeds(i, "corr", "in_file")
                 = {Edge("inputspec", "rest_res_filt", "", "corr", "in_file")}
            /\ ~HasNode(i, "warp_to_standard_input_functional")

C21_Witness ==
    \E i \in DOMAIN returned :
        /\ IsSca(i, "native")
        /\ Feeds(i, "warp_to_native", "postmat") # {}
        /\ Feeds(i, "corr", "ideal_file") # {}

-----------------------------------------------------------------------------
(* MapNodes of the i-th returned graph. *)
MapNodes(i) == {n \in returned[i].nodes : n.kind = "MapNode"}

(* Names of the nodes the builder constructs, connected or not. *)
Constructed(b, f) ==
    {Program(b, f)[k].name :
        k \in {j \in DOMAIN Program(b, f) : Program(b, f)[j].op \in {"node", "clone"}}}

(* The registration node the mode does not use. *)
UnusedRegistration(f) ==
    IF f = "native" THEN "warp_to_standard_input_functional" ELSE "warp_to_native"

(* C22: in every returned graph each MapNode has exactly one incoming edge *)
(* on each of its iterated input ports, and the sca nodes that are         *)
(* constructed but never connected (register, smooth and the registration  *)
(* node the mode does not use) are not in the graph.                       *)
C22_IteratedPortsFed ==
    \A i \in Done :
        /\ \A n \in MapNodes(i) : \A k \in DOMAIN n.iterfield :
              Cardinality(Feeds(i, n.name, n.iterfield[k])) = 1
        /\ returned[i].builder = "sca" =>
              /\ {"register", "smooth", UnusedRegistration(returned[i].flag)}
                    \subseteq Constructed("sca", returned[i].flag)
              /\ {"register", "smooth", UnusedRegistration(returned[i].flag)}
                    \cap {n.name : n \in returned[i].nodes} = {}

C22_Witness ==
    /\ \E i \in DOMAIN returned : IsSeg(i) /\ Cardinality(MapNodes(i)) >= 15
    /\ \E i \in DOMAIN returned : IsSca(i, "native") /\ Cardinality(MapNodes(i)) = 7
    /\ \E i \in DOMAIN returned : IsSca(i, "mni") /\ Cardinality(MapNodes(i)) = 7

-----------------------------------------------------------------------------
(***************************************************************************)
(* The model-configuration window:                                         *)
(*   CPAC/GUI/interface/utils/modelconfig_window.py  class ModelConfig     *)
(* Texts are sequences of one-character strings, so that split, strip,     *)
(* int and literal_eval are computed on the characters.                    *)
(***************************************************************************)

(* Button clicks handled in one run of the window. *)
MaxClicks == 2

Digits == {"0", "1", "2", "3", "4", "5", "6", "7", "8", "9"}

Letters == {"a", "b", "d", "e", "f", "i", "m", "n", "o", "x", "N", "O"}

DigitValue(c) ==
    CASE c = "0" -> 0 [] c = "1" -> 1 [] c = "2" -> 2 [] c = "3" -> 3
      [] c = "4" -> 4 [] c = "5" -> 5 [] c = "6" -> 6 [] c = "7" -> 7
      [] c = "8" -> 8 [] c = "9" -> 9

(* s[a..b], empty when a > b. *)
Slice(s, a, b) == [k \in 1..(b - a + 1) |-> s[a + k - 1]]

RECURSIVE Strip(_)
(* str.strip(): blanks taken off both ends. *)
Strip(s) ==
    IF s = <<>> THEN s
    ELSE IF Head(s) = " " THEN Strip(Tail(s))
    ELSE IF s[Len(s)] = " " THEN Strip(Slice(s, 1, Len(s) - 1))
    ELSE s

RECURSIVE Split(_, _)
(* str.split(sep): the pieces between separators; one piece, possibly     *)
(* empty, when there is no separator.                                      *)
Split(s, sep) ==
    IF \A k \in DOMAIN s : s[k] # sep THEN <<s>>
    ELSE LET k == CHOOSE j \in DOMAIN s :
                      s[j] = sep /\ \A h \in 1..(j - 1) : s[h] # sep
         IN  <<Slice(s, 1, k - 1)>> \o Split(Slice(s, k + 1, Len(s)), sep)

(* 'c' in s *)
Contains(s, c) == \E k \in DOMAIN s : s[k] = c

(* Does int(s) succeed?  Blanks around an optionally signed run of digits. *)
IsInt(s) ==
    LET t == Strip(s)
        u == IF t # <<>> /\ Head(t) \in {"+", "-"} THEN Tail(t) ELSE t
    IN  u # <<>> /\ \A k \in DOMAIN u : u[k] \in Digits

RECURSIVE DigitsValue(_)
DigitsValue(u) ==
    IF u = <<>> THEN 0
    ELSE 10 * DigitsValue(Slice(u, 1, Len(u) - 1)) + DigitValue(u[Len(u)])

(* int(s), for s with IsInt(s). *)
int(s) ==
    LET t == Strip(s)
    IN  IF Head(t) = "-" THEN 0 - DigitsValue(Tail(t))
        ELSE IF Head(t) = "+" THEN DigitsValue(Tail(t))
        ELSE DigitsValue(t)

(* An unsigned integer literal as the Python 2 parser reads it: decimal,  *)
(* or octal when it starts with 0.                                         *)
IsNumber(t) ==
    /\ t # <<>>
    /\ \A k \in DOMAIN t : t[k] \in Digits
    /\ (Len(t) > 1 /\ Head(t) = "0") => \A k \in DOMAIN t : t[k] \notin {"8", "9"}

RECURSIVE OctalValue(_)
OctalValue(u) ==
    IF u = <<>> THEN 0
    ELSE 8 * OctalValue(Slice(u, 1, Len(u) - 1)) + DigitValue(u[Len(u)])

NumberValue(t) == IF Head(t) = "0" THEN OctalValue(t) ELSE DigitsValue(t)

(* ast.literal_eval(s) for the texts a form can hold: one number is an     *)
(* int, numbers separated by commas (the last comma may end the text) are  *)
(* a tuple, a bare name is refused                                         *)
(* with ValueError and anything else does not parse.                       *)
literal_eval(s) ==
    LET parts == Split(s, ",")
        all == [k \in DOMAIN parts |-> Strip(parts[k])]
        items == IF Len(all) > 1 /\ all[Len(all)] = <<>>
                 THEN Slice(all, 1, Len(all) - 1) ELSE all
    IN  IF Len(all) = 1 /\ IsNumber(items[1])
          THEN [type |-> "int", val |-> NumberValue(items[1])]
        ELSE IF Len(all) > 1 /\ \A k \in DOMAIN items : IsNumber(items[k])
          THEN [type |-> "tuple",
                val |-> [k \in DOMAIN items |-> NumberValue(items[k])]]
        ELSE IF Len(all) = 1 /\ items[1] # <<>>
                /\ \A k \in DOMAIN items[1] : items[1][k] \in Letters
          THEN [type |-> "raise", val |-> "ValueError"]
        ELSE [type |-> "raise", val |-> "SyntaxError"]

-----------------------------------------------------------------------------
(* ModelConfig.__init__: the controls of the form, in declaration order.   *)
(* help is the number of lines of the control's comment text.              *)
Control(name, type, help, validation) ==
    [name |-> name, type |-> type, help |-> help, validation |-> validation]

(* validation_req of a control declared without one. *)
ValidationDefault == TRUE

Controls == <<
    Control("subjectListFile", "STR", 7, ValidationDefault),
    Control("phenotypicFile", "STR", 3, ValidationDefault),
    Control("subjectColumn", "STR", 1, ValidationDefault),
    Control("columnsInModel", "LSTR", 3, ValidationDefault),
    Control("categoricalVsDirectional", "LNUM", 9, ValidationDefault),
    Control("deMean", "LNUM", 11, ValidationDefault),
    Control("contrastFile", "STR", 9, ValidationDefault),
    Control("modelGroupVariancesSeparately", "NUM", 3, ValidationDefault),
    Control("groupingVariable", "STR", 3, ValidationDefault),
    Control("modelName", "STR", 1, ValidationDefault),
    Control("outputModelFilesDirectory", "STR", 1, ValidationDefault),
    Control("outputModelFile", "STR", 3, FALSE) >>

ControlNames == {Controls[k].name : k \in DOMAIN Controls}

ControlOf(name) == Controls[CHOOSE k \in DOMAIN Controls : Controls[k].name = name]

(* The type codes of constants.dtype. *)
DtypeCode(type) ==
    CASE type = "BOOL" -> 0 [] type = "STR" -> 1 [] type = "NUM" -> 2
      [] type = "LBOOL" -> 3 [] type = "LSTR" -> 4 [] type = "LNUM" -> 5

On == <<"O", "n">>

Off == <<"O", "f", "f">>

(* constants.substitution_map.get(text): the number a choice label stands  *)
(* for, None for a text that is no label.                                  *)
substitution_map(text) ==
    IF text = On THEN [type |-> "int", val |-> 1]
    ELSE IF text = Off THEN [type |-> "int", val |-> 0]
    ELSE [type |-> "None", val |-> 0]

(* Paths that exist on the disk the window runs on. *)
ExistingPaths == {<<"/", "s">>, <<"/", "p">>, <<"/", "c">>, <<"/", "o">>}

(* os.path.exists(path) *)
Exists(path) == path \in ExistingPaths

(* Texts a user may leave in each control. *)
FieldValues(name) ==
    CASE name = "subjectListFile" -> {<<>>, <<"/", "s">>, <<"/", "x">>}
      [] name = "phenotypicFile" -> {<<"/", "p">>}
      [] name = "subjectColumn" -> {<<"i", "d">>}
      [] name = "columnsInModel" -> {<<"a">>, <<"a", ",", " ", "b">>, <<>>}
      [] name = "categoricalVsDirectional" -> {<<"1">>, <<"0", ",", "1">>, <<"x">>, <<"2">>, <<>>}
      [] name = "deMean" -> {<<"0">>, <<"1", ",", "0">>, <<"1", ",", "x">>}
      [] name = "contrastFile" -> {<<"/", "c">>}
      [] name = "modelGroupVariancesSeparately" -> {Off, On}
      [] name = "groupingVariable" -> {<<"N", "o", "n", "e">>, <<"a">>, <<>>}
      [] name = "modelName" -> {<<"m">>}
      [] name = "outputModelFilesDirectory" -> {<<"/", "o">>}
      [] name = "outputModelFile" -> {<<"f">>, <<"/", "x">>}

(* The contents a form can have: one text per control. *)
Forms ==
    [subjectListFile : FieldValues("subjectListFile"),
     phenotypicFile : FieldValues("phenotypicFile"),
     subjectColumn : FieldValues("subjectColumn"),
     columnsInModel : FieldValues("columnsInModel"),
     categoricalVsDirectional : FieldValues("categoricalVsDirectional"),
     deMean : FieldValues("deMean"),
     contrastFile : FieldValues("contrastFile"),
     modelGroupVariancesSeparately : FieldValues("modelGroupVariancesSeparately"),
     groupingVariable : FieldValues("groupingVariable"),
     modelName : FieldValues("modelName"),
     outputModelFilesDirectory : FieldValues("outputModelFilesDirectory"),
     outputModelFile : FieldValues("outputModelFile")]

-----------------------------------------------------------------------------
(* ModelConfig.validate *)

(* What a run of validate has done so far: message boxes shown, controls   *)
(* painted pink, and the exception in flight ("" when none).               *)
NoTrouble == [boxes |-> 0, pink |-> {}, exc |-> ""]

(* display(win, msg): show the message box, paint the control, raise. *)
display(st, win) ==
    [boxes |-> st.boxes + 1, pink |-> st.pink \cup {win}, exc |-> "ValueError"]

(* "if cond: self.display(win, ...)", skipped while an exception is in flight. *)
DisplayIf(st, cond, win) == IF st.exc = "" /\ cond THEN display(st, win) ELSE st

(* columns = [v.strip() for v in config_map.get('columnsInModel')[1].split(",")] *)
Columns(config_map) ==
    LET parts == Split(config_map["columnsInModel"], ",")
    IN  [k \in DOMAIN parts |-> Strip(parts[k])]

RECURSIVE CheckEach(_, _, _, _)
(* for v in value: if v not in [1, 0]: self.display(...) *)
CheckEach(st, value, k, win) ==
    IF k > Len(value) THEN st
    ELSE CheckEach(DisplayIf(st, value[k] \notin {1, 0}, win), value, k + 1, win)

(* The checks of a categoricalVsDirectional or deMean entry. *)
CheckEntries(st, key, val, columns) ==
    LET parts == Split(val, ",")
    IN  IF st.exc # "" THEN st
        ELSE IF \E k \in DOMAIN parts : ~IsInt(parts[k])
          THEN [st EXCEPT !.exc = "ValueError"]
        ELSE LET value == [k \in DOMAIN parts |-> int(parts[k])]
             IN  DisplayIf(CheckEach(st, value, 1, key),
                           Len(value) # Len(columns), key)

(* The body of "for key, val in config_map.iteritems()" for one key. *)
CheckKey(st, key, config_map) ==
    LET val == config_map[key]
        columns == Columns(config_map)
        s1 == DisplayIf(st, key # "groupingVariable" /\ Len(val) = 0, key)
        s2 == DisplayIf(s1, /\ Contains(val, "/")
                            /\ ControlOf(key).validation
                            /\ ~Exists(val), key)
        s3 == IF key \in {"categoricalVsDirectional", "deMean"}
              THEN CheckEntries(s2, key, val, columns)
              ELSE s2
        s4 == IF /\ key = "groupingVariable"
                 /\ config_map["modelGroupVariancesSeparately"] = On
              THEN DisplayIf(DisplayIf(s3, Len(val) = 0, key),
                             \A k \in DOMAIN columns : columns[k] # val, key)
              ELSE s3
    IN  s4

RECURSIVE Iterate(_, _, _)
(* The loop over config_map.iteritems().  A dict gives its keys in an      *)
(* order the program does not choose, so every order is taken; keys whose  *)
(* checks change nothing are passed over.                                  *)
Iterate(st, keys, config_map) ==
    IF st.exc # "" THEN {st}
    ELSE LET bad == {k \in keys : CheckKey(st, k, config_map) # st}
         IN  IF bad = {} THEN {st}
             ELSE UNION {Iterate(CheckKey(st, k, config_map), bad \ {k}, config_map) :
                            k \in bad}

(* Variant: the except clause lets the exception through. *)
ValidateReturn_Propagate(st) ==
    IF st.exc = "" THEN [ret |-> 1, boxes |-> st.boxes, pink |-> st.pink, exc |-> ""]
    ELSE [ret |-> 0, boxes |-> st.boxes, pink |-> st.pink, exc |-> st.exc]

(* "return 1" at the end of the try block, "except Exception: return -1". *)
ValidateReturn(st) ==
    IF st.exc = "" THEN [ret |-> 1, boxes |-> st.boxes, pink |-> st.pink, exc |-> ""]
    ELSE [ret |-> -1, boxes |-> st.boxes, pink |-> st.pink, exc |-> ""]

(* validate(config_map): the outcomes it can have. *)
validate(config_map) ==
    LET columns == Columns(config_map)
        s0 == DisplayIf(NoTrouble, Len(columns) = 0, "columnsInModel")
    IN  IF s0.exc = "" /\ Len(columns) = 0
        THEN {[ret |-> -1, boxes |-> s0.boxes, pink |-> s0.pink, exc |-> ""]}
        ELSE {ValidateReturn(s) : s \in Iterate(s0, ControlNames, config_map)}

-----------------------------------------------------------------------------
(* ModelConfig.save: the value written for an item of config_list. *)
Convert(ctrl, text) ==
    LET code == DtypeCode(ctrl.type)
    IN  IF code = 2
          THEN IF substitution_map(text).type # "None"
               THEN substitution_map(text)
               ELSE literal_eval(text)
        ELSE IF code = 5
          THEN LET v == literal_eval(text)
               IN  IF v.type = "raise" THEN v
                   ELSE IF v.type = "tuple" THEN [type |-> "list", val |-> v.val]
                   ELSE [type |-> "raise", val |-> "TypeError"]
        ELSE IF code = 4
          THEN [type |-> "strlist",
                val |-> [k \in DOMAIN Split(text, ",") |-> Strip(Split(text, ",")[k])]]
        ELSE [type |-> "str", val |-> text]

(* The lines "print >> f" writes for one item: the help text as comment    *)
(* lines, the assignment, and the empty line the trailing "\n" makes.      *)
ItemLines(ctrl, value) ==
    [k \in 1..ctrl.help |-> [kind |-> "comment", name |-> ctrl.name, val |-> k]]
    \o <<[kind |-> "assign", name |-> ctrl.name, val |-> value],
         [kind |-> "blank", name |-> ctrl.name, val |-> 0]>>

(* The graph builders are not running while the window is up. *)
NoBuilder ==
    /\ pc = "idle"
    /\ builder = ""
    /\ flag = ""
    /\ ip = 0
    /\ locals = NoNodes
    /\ wf = NoWorkflow
    /\ returned = <<>>
    /\ seed_list = 0
    /\ fwhm = 0
    /\ thresholds = NoThresholds

(* The window after __init__ and the user's typing. *)
GuiInit ==
    /\ NoBuilder
    /\ form \in Forms
    /\ gpc = "idle"
    /\ gflag = ""
    /\ vret = 0
    /\ shown = 0
    /\ highlighted = {}
    /\ dlg = ""
    /\ file = NoFile
    /\ idx = 0
    /\ ran = 0
    /\ raised = ""
    /\ window = "open"
    /\ clicks = 0
    /\ log = <<>>

(* "Create Model" or "Save Settings" is pressed: save(event, flag) starts  *)
(* and collects config_list and config_map from the controls.              *)
Click ==
    /\ gpc = "idle"
    /\ window = "open"
    /\ clicks < MaxClicks
    /\ \E f \in {"run", "save"} : gflag' = f
    /\ gpc' = "validate"
    /\ clicks' = clicks + 1
    /\ vret' = 0
    /\ shown' = 0
    /\ highlighted' = {}
    /\ dlg' = ""
    /\ file' = NoFile
    /\ idx' = 0
    /\ ran' = 0
    /\ raised' = ""
    /\ log' = <<>>
    /\ UNCHANGED <<form, window>>
    /\ UNCHANGED vars

(* if self.validate(config_map) > 0: *)
Validate ==
    /\ gpc = "validate"
    /\ \E o \in validate(form) :
          /\ vret' = o.ret
          /\ shown' = o.boxes
          /\ highlighted' = o.pink
          /\ raised' = o.exc
          /\ gpc' = IF o.exc = "" /\ o.ret > 0 THEN "dialog" ELSE "idle"
    /\ log' = Append(log, "validate")
    /\ UNCHANGED <<form, gflag, dlg, file, idx, ran, window, clicks>>
    /\ UNCHANGED vars

(* if dlg.ShowModal() == wx.ID_OK: *)
ShowModal ==
    /\ gpc = "dialog"
    /\ \E answer \in {"OK", "CANCEL"} :
          /\ dlg' = answer
          /\ gpc' = IF answer = "OK" THEN "open" ELSE "idle"
    /\ log' = Append(log, "ShowModal")
    /\ UNCHANGED <<form, gflag, vret, shown, highlighted, file, idx, ran, raised,
                   window, clicks>>
    /\ UNCHANGED vars

(* f = open(path, 'w') *)
OpenFile ==
    /\ gpc = "open"
    /\ file' = [state |-> "open", lines |-> <<>>]
    /\ idx' = 1
    /\ gpc' = "write"
    /\ log' = Append(log, "open")
    /\ UNCHANGED <<form, gflag, vret, shown, highlighted, dlg, ran, raised, window,
                   clicks>>
    /\ UNCHANGED vars

(* One turn of "for item in config_list": convert the value and print the  *)
(* item's lines.                                                           *)
WriteItem ==
    /\ gpc = "write"
    /\ idx <= Len(Controls)
    /\ LET value == Convert(Controls[idx], form[Controls[idx].name])
       IN  /\ value.type # "raise"
           /\ file' = [file EXCEPT !.lines = @ \o ItemLines(Controls[idx], value)]
    /\ idx' = idx + 1
    /\ gpc' = IF idx = Len(Controls) THEN "close" ELSE "write"
    /\ UNCHANGED <<form, gflag, vret, shown, highlighted, dlg, ran, raised, window,
                   clicks, log>>
    /\ UNCHANGED vars

(* The conversion of an item raises: "except Exception: ... raise" passes  *)
(* it on and f.close() is not reached.  Whether the file object is closed  *)
(* when the frame is given up is left to the interpreter.                  *)
WriteRaise ==
    /\ gpc = "write"
    /\ idx <= Len(Controls)
    /\ LET value == Convert(Controls[idx], form[Controls[idx].name])
       IN  /\ value.type = "raise"
           /\ raised' = value.val
    /\ \E s \in {"open", "closed"} : file' = [file EXCEPT !.state = s]
    /\ gpc' = "idle"
    /\ log' = Append(log, "raise")
    /\ UNCHANGED <<form, gflag, vret, shown, highlighted, dlg, idx, ran, window,
                   clicks>>
    /\ UNCHANGED vars

(* Variant: the model is run whatever the flag. *)
CloseFile_RunAlways ==
    /\ gpc = "close"
    /\ file' = [file EXCEPT !.state = "closed"]
    /\ gpc' = "run"
    /\ log' = Append(log, "close")
    /\ UNCHANGED <<form, gflag, vret, shown, highlighted, dlg, idx, ran, raised,
                   window, clicks>>
    /\ UNCHANGED vars

(* f.close(), then "if flag == 'run':" *)
CloseFile ==
    /\ gpc = "close"
    /\ file' = [file EXCEPT !.state = "closed"]
    /\ gpc' = IF gflag = "run" THEN "run" ELSE "idle"
    /\ log' = Append(log, "close")
    /\ UNCHANGED <<form, gflag, vret, shown, highlighted, dlg, idx, ran, raised,
                   window, clicks>>
    /\ UNCHANGED vars

(* if self.run_model(path) > 0: run_model returns 1, or -1 after an error  *)
(* box when the model tool fails.                                          *)
RunModel ==
    /\ gpc = "run"
    /\ \E r \in {1, -1} :
          /\ ran' = r
          /\ gpc' = IF r > 0 THEN "finish" ELSE "idle"
    /\ log' = Append(log, "run_model")
    /\ UNCHANGED <<form, gflag, vret, shown, highlighted, dlg, file, idx, raised,
                   window, clicks>>
    /\ UNCHANGED vars

(* The parent's text boxes are set and self.Close() is called. *)
Finish ==
    /\ gpc = "finish"
    /\ window' = "closed"
    /\ gpc' = "idle"
    /\ log' = Append(log, "Close")
    /\ UNCHANGED <<form, gflag, vret, shown, highlighted, dlg, file, idx, ran, raised,
                   clicks>>
    /\ UNCHANGED vars

(* cancel(event): self.Close() *)
Cancel ==
    /\ gpc = "idle"
    /\ window = "open"
    /\ window' = "cancelled"
    /\ UNCHANGED <<form, gpc, gflag, vret, shown, highlighted, dlg, file, idx, ran,
                   raised, clicks, log>>
    /\ UNCHANGED vars

GuiNext ==
    \/ Click
    \/ Validate
    \/ ShowModal
    \/ OpenFile
    \/ WriteItem
    \/ WriteRaise
    \/ CloseFile
    \/ RunModel
    \/ Finish
    \/ Cancel

GuiSpec == GuiInit /\ [][GuiNext]_<<vars, guivars>>

-----------------------------------------------------------------------------
(* C23: whenever validate has returned -1, display() was called during     *)
(* that call: an error message box was shown and the offending control     *)
(* highlighted, for every kind of failure.                                 *)
C23_FailureShown ==
    vret = -1 => (shown >= 1 /\ highlighted # {})

-----------------------------------------------------------------------------
IsAssign(line) == line.kind = "assign"

RECURSIVE HelpLinesUpTo(_)
(* Lines the items 1..k of config_list take in the file. *)
HelpLinesUpTo(k) == IF k = 0 THEN 0 ELSE HelpLinesUpTo(k - 1) + Controls[k].help + 2

(* The file holds, for every control in declaration order, the help text   *)
(* as comment lines followed by one assignment line.                       *)
FileComplete ==
    /\ Len(file.lines) = HelpLinesUpTo(Len(Controls))
    /\ LET a == SelectSeq(file.lines, IsAssign)
       IN  [k \in DOMAIN a |-> a[k].name] = [k \in DOMAIN Controls |-> Controls[k].name]
    /\ \A j \in DOMAIN file.lines : IsAssign(file.lines[j]) =>
          LET h == ControlOf(file.lines[j].name).help
          IN  /\ j > h
              /\ \A c \in 1..h :
                    file.lines[j - h + c - 1]
                       = [kind |-> "comment", name |-> file.lines[j].name, val |-> c]

(* The write loop of save is over: the handler has left it or has ended. *)
WritingOver == gpc \in {"idle", "run", "finish"}

(* C24: when validate accepted the form and the user confirmed the file    *)
(* dialog, save has written every control's comment lines and assignment   *)
(* line in declaration order and has closed the file, for every accepted   *)
(* form content; the file is never left partially written.                 *)
C24_AllItemsWritten ==
    (vret = 1 /\ dlg = "OK" /\ WritingOver) =>
        /\ raised = ""
        /\ file.state = "closed"
        /\ FileComplete

-----------------------------------------------------------------------------
(* validate has returned to the running (or last) save call. *)
Validated == log # <<>> /\ log[1] = "validate"

(* C25: validate never lets an exception out: it returns 1 or -1, the      *)
(* ValueError of display() and the parsing errors of the checks become -1, *)
(* and the checks stop at the first failure, so one call shows at most one *)
(* message box and shows none when it returns 1.                           *)
C25_ValidateContained ==
    Validated =>
        /\ vret \in {1, -1}
        /\ Len(log) = 1 => raised = ""
        /\ raised # "ValueError"
        /\ shown <= 1
        /\ Cardinality(highlighted) = shown
        /\ vret = 1 => shown = 0

C25_Witness ==
    /\ Validated
    /\ vret = -1
    /\ shown = 1
    /\ \E k \in DOMAIN Split(form["deMean"], ",") : ~IsInt(Split(form["deMean"], ",")[k])

-----------------------------------------------------------------------------
(* Has the event happened in the running (or last) save call? *)
Happened(e) == \E k \in DOMAIN log : log[k] = e

(* Event a happened, and before event b. *)
Before(a, b) == \E i, j \in DOMAIN log : i < j /\ log[i] = a /\ log[j] = b

(* C26: in every run of save(event, flag): no file is opened unless        *)
(* validate returned 1 and the file dialog returned OK; run_model is       *)
(* called only with flag 'run' and only after the file was completely     *)
(* written and closed; save closes the window only after run_model         *)
(* returned a positive result; with flag 'save', a failed validation or a  *)
(* cancelled dialog, run_model is never called and save leaves the window  *)
(* open.                                                                   *)
C26_SaveOrder ==
    /\ (file.state # "none" \/ Happened("open")) =>
          (vret = 1 /\ dlg = "OK" /\ Before("validate", "ShowModal")
             /\ Before("ShowModal", "open"))
    /\ (gpc \in {"run", "finish"} \/ ran # 0 \/ Happened("run_model")) =>
          /\ gflag = "run"
          /\ file.state = "closed"
          /\ FileComplete
          /\ Before("open", "close")
          /\ Happened("run_model") => Before("close", "run_model")
    /\ Happened("Close") => (ran = 1 /\ Before("run_model", "Close"))
    /\ (gflag = "save" \/ vret = -1 \/ dlg = "CANCEL") =>
          /\ ran = 0
          /\ ~Happened("run_model")
          /\ ~Happened("Close")
          /\ window # "closed"
    /\ window = "closed" => Happened("Close")
    /\ gpc # "idle" => window = "open"

C26_Witness ==
    /\ gflag = "run"
    /\ Happened("Close")
    /\ window = "closed"
    /\ file.state = "closed"
    /\ FileComplete

====
